---- MODULE Spec2Model ----
(***************************************************************************)
(* Model of src/main.py: the process-gated connection supervisor           *)
(* (monitor_ibkr), the event handlers it registers on a session            *)
(* (setup_ibkr_event_listeners) and the three-sink logger (log_event).     *)
(*                                                                         *)
(* The worker thread is the only thread that does work (main.py:121-124),  *)
(* so the model has one control position, pc, and a stack of log_event     *)
(* activations.  log_event is split at its three externally visible       *)
(* effects (the SQLite commit, the JSON file rewrite, the Telegram send):  *)
(* between them the files are observable from outside the process.         *)
(*                                                                         *)
(* Spec       : the stores accept every write; the environment may make    *)
(*              the JSON file unparseable, session opens and event loops   *)
(*              may fail, Telegram sends may fail, an event loop may end   *)
(*              with its connection up.                                    *)
(* SpecFaults : Spec plus failing store accesses (the SQLite insert, the   *)
(*              JSON rewrite and the read of an undecodable file raise).   *)
(* SpecSink   : SpecFaults with sessions that end by failure only, for the  *)
(*              order of the steps of log_event.                           *)
(* SpecPoller : the supervisor's cycle with the process list of every poll *)
(*              kept, for the properties of is_tws_running.                *)
(* SpecLive   : the supervisor's cycle without remote events, with a fair   *)
(*              worker thread, for the progress of monitor_ibkr.           *)
(***************************************************************************)
EXTENDS Integers, Sequences, FiniteSets, TLC

VARIABLES
    pc,        \* position of the worker thread in monitor_ibkr
    sleepFor,  \* argument of the time.sleep the worker is in (0: not sleeping)
    ib,        \* the session object bound to the local name ib
    emit,      \* the remote event being dispatched and the handlers left to call
    stack,     \* log_event activations, innermost last
    clock,     \* number of log_event calls started; the source of timestamps
    db,        \* rows of table activity in DB_FILE, in insertion order
    file,      \* JSON_LOG_FILE: missing, unparseable, or a parsed list
    notes,     \* texts handed to bot.send_message so far
    hist,      \* what has been handed to the program: remote events, caught failures
    polls,     \* results of is_tws_running so far
    procs,     \* the process list of the latest poll (recorded by PollObserved only)
    opens,     \* number of ib.connect calls made
    edited,    \* JSON_LOG_FILE has been edited from outside the program
    docWrites, \* number of completed rewrites of JSON_LOG_FILE
    resetW,    \* docWrites when the file was last read as missing or unparseable
    resetRow,  \* rows that db held before the call that last read it so
    orphaned   \* a session that ib no longer names is still connected

vars == <<pc, sleepFor, ib, emit, stack, clock, db, file, notes, hist, polls,
          procs, opens, edited, docWrites, resetW, resetRow, orphaned>>

(***************************************************************************)
(* Bounds of the model.                                                    *)
(***************************************************************************)
MaxCalls == 2
MaxPolls == 5
MaxProcs == 2

(***************************************************************************)
(* Program constants.                                                      *)
(***************************************************************************)
SHORT_SLEEP == 5
LONG_SLEEP == 10

\* 'tws.exe', the default of TWS_PROCESS_NAME, as a sequence of characters.
TWS_PROCESS_NAME == <<"t", "w", "s", ".", "e", "x", "e">>

(***************************************************************************)
(* is_tws_running                                                          *)
(***************************************************************************)
\* proc.info['name'] of one process: psutil gives None for a process whose
\* name it may not read.
ProcNone == [has |-> FALSE, name |-> <<>>]
ProcNamed(n) == [has |-> TRUE, name |-> n]
ProcInfos ==
    { ProcNone,
      ProcNamed(<<>>),
      ProcNamed(<<"t", "w", "s", ".", "e", "x", "e">>),
      ProcNamed(<<"T", "W", "S", ".", "E", "X", "E">>),
      ProcNamed(<<"x", "t", "w", "s", ".", "e", "x", "e">>),
      ProcNamed(<<"t", "w", "s">>),
      ProcNamed(<<"j", "a", "v", "a">>) }

RECURSIVE SeqsUpTo(_, _)
SeqsUpTo(S, n) ==
    IF n = 0 THEN { <<>> }
    ELSE LET shorter == SeqsUpTo(S, n - 1)
         IN  shorter \cup { Append(s, x) : s \in shorter, x \in S }

ProcLists == SeqsUpTo(ProcInfos, MaxProcs)

\* str.lower on the characters the model uses.
LowerChar(c) ==
    CASE c = "T" -> "t"
      [] c = "W" -> "w"
      [] c = "S" -> "s"
      [] c = "E" -> "e"
      [] c = "X" -> "x"
      [] OTHER -> c

Lower(s) == [i \in DOMAIN s |-> LowerChar(s[i])]

\* sub in s
Contains(sub, s) ==
    \E i \in 0..(Len(s) - Len(sub)) : SubSeq(s, i + 1, i + Len(sub)) = sub

\* Mutant of NameTest: the guard `proc.info['name'] and` dropped, so .lower()
\* is called on None.
NameTestNoGuard(p) ==
    IF ~p.has THEN "raise"
    ELSE IF Contains(Lower(TWS_PROCESS_NAME), Lower(p.name)) THEN "match"
    ELSE "nomatch"

\* The condition of the if in the loop body, for one process.
NameTest(p) ==
    IF ~p.has \/ p.name = <<>> THEN "nomatch"
    ELSE IF Contains(Lower(TWS_PROCESS_NAME), Lower(p.name)) THEN "match"
    ELSE "nomatch"

RECURSIVE is_tws_running(_)
is_tws_running(ps) ==
    IF ps = <<>> THEN "false"
    ELSE LET t == NameTest(Head(ps))
         IN  IF t = "match" THEN "true"
             ELSE IF t = "raise" THEN "raise"
             ELSE is_tws_running(Tail(ps))

(***************************************************************************)
(* Remote events and the records made from them                            *)
(***************************************************************************)
Cats == {"OrderStatus", "Execution", "OpenOrder"}

\* The remote events the session may deliver: category and key fields.
Events ==
    { [cat |-> "OrderStatus", f |-> <<"Filled">>],
      [cat |-> "Execution", f |-> <<"BUY", "100", "50.25">>],
      [cat |-> "OpenOrder", f |-> <<"SELL", "7">>] }

NoEvent == [cat |-> "none", f |-> <<>>]
NoEmit == [ev |-> NoEvent, left |-> 0, cur |-> TRUE]

\* Exceptions the supervisor's except clause may receive.
ConnectErrors == {"ConnectionRefusedError"}
RunErrors == {"ConnectionError"}
LoopRunningError == "RuntimeError"

\* A caught failure, in the shape of an input.
Failure(reason) == [cat |-> "Error", f |-> <<reason>>]

\* Mutant of Describe: handle_execution formats price before shares.
DescribePriceFirst(x) ==
    CASE x.cat = "OrderStatus" -> <<"Order status:", x.f[1]>>
      [] x.cat = "Execution" -> <<"Trade executed:", x.f[1], x.f[3], "@", x.f[2]>>
      [] x.cat = "OpenOrder" -> <<"New order detected:", x.f[1], x.f[2]>>
      [] x.cat = "Error" -> <<"Failed to connect or monitor:", x.f[1]>>

\* The f-strings of the handlers and of the except clause.
Describe(x) ==
    CASE x.cat = "OrderStatus" -> <<"Order status:", x.f[1]>>
      [] x.cat = "Execution" -> <<"Trade executed:", x.f[1], x.f[2], "@", x.f[3]>>
      [] x.cat = "OpenOrder" -> <<"New order detected:", x.f[1], x.f[2]>>
      [] x.cat = "Error" -> <<"Failed to connect or monitor:", x.f[1]>>

\* The third argument of log_event: the event object's __dict__, or {}.
EmptyPayload == <<>>

\* Mutant of RawData: the except clause passes the exception on as payload.
RawDataOfError(x) == <<x.cat, x.f>>

RawData(x) == IF x.cat = "Error" THEN EmptyPayload ELSE <<x.cat, x.f>>

\* json.dumps(raw_data): a text, not the structure.
Dumps(raw) == [json |-> raw]

\* The dict entry built at the top of log_event.
Entry(ts, x) ==
    [timestamp |-> ts, event_type |-> x.cat, description |-> Describe(x),
     raw_data |-> RawData(x)]

\* Mutant of Row: the INSERT takes the time again instead of using timestamp.
RowFreshTimestamp(e) ==
    [timestamp |-> e.timestamp + 1, event_type |-> e.event_type,
     description |-> e.description, raw_data |-> Dumps(e.raw_data)]

\* The tuple bound to the INSERT's placeholders.
Row(e) ==
    [timestamp |-> e.timestamp, event_type |-> e.event_type,
     description |-> e.description, raw_data |-> Dumps(e.raw_data)]

\* f"[{event_type}] {description}"
Msg(e) == <<"[", e.event_type, "]", e.description>>

(***************************************************************************)
(* The session object                                                      *)
(***************************************************************************)
\* IB(): a new session, not connected, no listener on any event.  The program
\* has no ib.disconnect(): connected goes back to FALSE only when the
\* connection is lost or closed from the remote end.
IB == [connected |-> FALSE, slots |-> [c \in Cats |-> 0]]

\* Mutant of setup_ibkr_event_listeners: the execution handler is added twice.
setup_twice(s) ==
    [s EXCEPT !.slots = [c \in Cats |->
        IF c = "Execution" THEN s.slots[c] + 2 ELSE s.slots[c] + 1]]

\* One handler is added to each of the three events.
setup_ibkr_event_listeners(s) ==
    [s EXCEPT !.slots = [c \in Cats |-> s.slots[c] + 1]]


(***************************************************************************)
(* log_event                                                               *)
(***************************************************************************)
\* JSON_LOG_FILE: it does not exist; it is text that json.load rejects with
\* JSONDecodeError; it holds bytes that the text layer of open(..., 'r')
\* cannot decode, so that json.load raises UnicodeDecodeError, which is not
\* a JSONDecodeError; it is the dump of a list.
Missing == [kind |-> "missing", logs |-> <<>>]
Corrupt == [kind |-> "corrupt", logs |-> <<>>]
Garbled == [kind |-> "garbled", logs |-> <<>>]
Parsed(l) == [kind |-> "list", logs |-> l]

Top == stack[Len(stack)]
SetTop(fr) == [stack EXCEPT ![Len(stack)] = fr]
Pop == SubSeq(stack, 1, Len(stack) - 1)

\* The innermost log_event call is about to run step s.
AtStep(s) == stack # <<>> /\ Top.step = s /\ Top.exc = "none"

\* An exception is leaving the innermost log_event call.
Raising == stack # <<>> /\ Top.exc # "none"

\* The activation a call log_event(...) starts with: timestamp and entry are
\* computed, nothing is written yet.  step is the statement to run next, exc
\* the exception leaving the call (raised by the statement at step), sent how
\* bot.send_message ended, before what the two stores held when the call
\* was made.
Frame(x, ctx) ==
    [entry |-> Entry(clock + 1, x), step |-> "sql", logs |-> <<>>, ctx |-> ctx,
     exc |-> "none", sent |-> "none", before |-> [db |-> db, file |-> file]]

\* The call log_event(event_type, description, raw_data) made from ctx:
\* "handler" (one of the three handlers) or "error" (the except clause).
log_event(x, ctx, under) ==
    /\ stack' = Append(under, Frame(x, ctx))
    /\ clock' = clock + 1

\* Mutant of StepAfter: the Telegram message goes out right after the INSERT,
\* before the JSON file is read and rewritten.
StepAfterNotifyEarly(s) ==
    CASE s = "sql" -> "notify"
      [] s = "notify" -> "json_read"
      [] s = "json_read" -> "json_write"
      [] s = "json_write" -> "done"

\* The order of the statements of log_event: SQLite, JSON read, JSON write,
\* Telegram, return.
StepAfter(s) ==
    CASE s = "sql" -> "json_read"
      [] s = "json_read" -> "json_write"
      [] s = "json_write" -> "notify"
      [] s = "notify" -> "done"

\* Mutant of Insert: the INSERT replaces the newest row instead of adding one.
InsertOverwrites(rows, e) ==
    IF rows = <<>> THEN <<Row(e)>>
    ELSE [rows EXCEPT ![Len(rows)] = Row(e)]

\* INSERT INTO activity VALUES (?, ?, ?, ?)
Insert(rows, e) == Append(rows, Row(e))

\* with sqlite3.connect(DB_FILE): INSERT, commit.
LogSql ==
    /\ AtStep("sql")
    /\ db' = Insert(db, Top.entry)
    /\ stack' = SetTop([Top EXCEPT !.step = StepAfter("sql")])
    /\ UNCHANGED <<pc, sleepFor, ib, emit, clock, file, notes, hist, polls,
                   procs, opens, edited, docWrites, resetW, resetRow, orphaned>>

\* Mutant of LoadLogs: the parsed list is not kept (logs stays []).
LoadLogsDropsAll(f) == <<>>

\* logs after the exists / json.load / except JSONDecodeError block.
LoadLogs(f) == IF f.kind = "list" THEN f.logs ELSE <<>>

\* logs = [] / os.path.exists / json.load / except JSONDecodeError, then
\* logs.append(entry).
LogJsonRead ==
    /\ AtStep("json_read")
    /\ file.kind # "garbled"
    /\ stack' = SetTop([Top EXCEPT !.logs = Append(LoadLogs(file), Top.entry),
                                   !.step = StepAfter("json_read")])
    /\ resetW' = IF file.kind = "list" THEN resetW ELSE docWrites
    /\ resetRow' = IF file.kind = "list" THEN resetRow ELSE Len(db) - 1
    /\ UNCHANGED <<pc, sleepFor, ib, emit, clock, db, file, notes, hist, polls,
                   procs, opens, edited, docWrites, orphaned>>

\* with open(JSON_LOG_FILE, 'w'): json.dump(logs, f, indent=2)
LogJsonWrite ==
    /\ AtStep("json_write")
    /\ file' = Parsed(Top.logs)
    /\ docWrites' = docWrites + 1
    /\ stack' = SetTop([Top EXCEPT !.step = StepAfter("json_write")])
    /\ UNCHANGED <<pc, sleepFor, ib, emit, clock, db, notes, hist, polls,
                   procs, opens, edited, resetW, resetRow, orphaned>>

\* asyncio.run(send_telegram_message(...)): bot.send_message is called and
\* succeeds, or raises and the except of send_telegram_message prints a warning.
SendMessage(ok) ==
    /\ AtStep("notify")
    /\ notes' = Append(notes, Msg(Top.entry))
    /\ stack' = SetTop([Top EXCEPT !.step = StepAfter("notify"),
                                   !.sent = IF ok THEN "ok" ELSE "failed"])
    /\ UNCHANGED <<pc, sleepFor, ib, emit, clock, db, file, hist, polls,
                   procs, opens, edited, docWrites, resetW, resetRow, orphaned>>

\* asyncio.run called by a handler, that is from a callback of the event loop
\* that ib.run() is running in this thread: asyncio.run refuses to start
\* under a running loop and raises RuntimeError before the coroutine starts,
\* outside the try of send_telegram_message.  Whether the session's loop
\* counts as running for asyncio.run is the session library's business (a
\* loop patched for nesting lets the call through), so a handler's
\* notification step may take this step or SendMessage.
LogNotifyLoopRunning ==
    /\ AtStep("notify")
    /\ Top.ctx = "handler"
    /\ stack' = SetTop([Top EXCEPT !.exc = LoopRunningError])
    /\ UNCHANGED <<pc, sleepFor, ib, emit, clock, db, file, notes, hist, polls,
                   procs, opens, edited, docWrites, resetW, resetRow, orphaned>>

\* Mutant of AfterExcept: the except clause goes straight back to ib.connect.
AfterExceptReconnects == "connect"

\* Where the except clause of monitor_ibkr goes once log_event has returned.
AfterExcept == "sleep"

\* log_event returns to its caller: a handler returns to the session's event
\* loop; the except clause goes on to time.sleep(10).
Return ==
    /\ AtStep("done")
    /\ stack' = Pop
    /\ pc' = IF Top.ctx = "error" THEN AfterExcept ELSE pc
    /\ sleepFor' = IF Top.ctx = "error" THEN LONG_SLEEP ELSE sleepFor
    /\ UNCHANGED <<ib, emit, clock, db, file, notes, hist, polls, procs, opens,
                   edited, docWrites, resetW, resetRow, orphaned>>

\* An exception leaves log_event inside a handler; the session's event
\* dispatch logs it and goes on with the loop.
HandlerRaiseSwallowed ==
    /\ Raising
    /\ Top.ctx = "handler"
    /\ stack' = Pop
    /\ UNCHANGED <<pc, sleepFor, ib, emit, clock, db, file, notes, hist, polls,
                   procs, opens, edited, docWrites, resetW, resetRow, orphaned>>

\* An exception leaves log_event inside a handler and comes out of ib.run():
\* the except clause of monitor_ibkr logs it.
HandlerRaisePropagated ==
    /\ Raising
    /\ Top.ctx = "handler"
    /\ clock < MaxCalls
    /\ pc' = "except"
    /\ emit' = NoEmit
    /\ hist' = Append(hist, Failure(Top.exc))
    /\ log_event(Failure(Top.exc), "error", Pop)
    /\ UNCHANGED <<sleepFor, ib, db, file, notes, polls, procs, opens, edited,
                   docWrites, resetW, resetRow, orphaned>>

(***************************************************************************)
(* monitor_ibkr                                                            *)
(***************************************************************************)
\* What becomes of the session s that ib named when ib = IB() rebinds the
\* name: if it is connected it stays so, named by nothing.
Rebind(s, o) == o \/ s.connected

\* What is_tws_running can answer on the process lists of the model.
PollResults == { is_tws_running(ps) : ps \in ProcLists }

\* if is_tws_running(): ... ib = IB()   /   else: time.sleep(5)
\* The call is outside the try: an exception from it ends the thread.
\* ib = IB() only rebinds the name: the session it named is left as it is,
\* connected or not, with its listeners.
PollStep(r) ==
    /\ pc = "poll"
    /\ Len(polls) < MaxPolls
    /\ pc' = IF r = "true" THEN "connect"
             ELSE IF r = "false" THEN "sleep" ELSE "dead"
    /\ ib' = IF r = "true" THEN IB ELSE ib
    /\ sleepFor' = IF r = "false" THEN SHORT_SLEEP ELSE sleepFor
    /\ polls' = IF r = "raise" THEN polls ELSE Append(polls, r = "true")
    /\ orphaned' = IF r = "true" THEN Rebind(ib, orphaned) ELSE orphaned
    /\ UNCHANGED <<emit, stack, clock, db, file, notes, hist, opens, edited,
                   docWrites, resetW, resetRow>>

Poll ==
    /\ \E r \in PollResults : PollStep(r)
    /\ UNCHANGED procs

\* The same step, with the process list it saw kept in procs.
PollObserved ==
    \E ps \in ProcLists :
        /\ PollStep(is_tws_running(ps))
        /\ procs' = ps

\* time.sleep ends and the while loop starts over.
Sleep ==
    /\ pc = "sleep"
    /\ pc' = "poll"
    /\ sleepFor' = 0
    /\ UNCHANGED <<ib, emit, stack, clock, db, file, notes, hist, polls, procs,
                   opens, edited, docWrites, resetW, resetRow, orphaned>>

\* ib.connect returns; setup_ibkr_event_listeners(ib); ib.run() starts.
ConnectOk ==
    /\ pc = "connect"
    /\ opens' = opens + 1
    /\ ib' = setup_ibkr_event_listeners([ib EXCEPT !.connected = TRUE])
    /\ pc' = "run"
    /\ UNCHANGED <<sleepFor, emit, stack, clock, db, file, notes, hist, polls,
                   procs, edited, docWrites, resetW, resetRow, orphaned>>

\* ib.connect raises: except Exception as e: log_event("Error", ..., {}).
ConnectFail ==
    /\ pc = "connect"
    /\ clock < MaxCalls
    /\ opens' = opens + 1
    /\ \E reason \in ConnectErrors :
         /\ hist' = Append(hist, Failure(reason))
         /\ log_event(Failure(reason), "error", stack)
    /\ pc' = "except"
    /\ UNCHANGED <<sleepFor, ib, emit, db, file, notes, polls, procs, edited,
                   docWrites, resetW, resetRow, orphaned>>

\* Mutant of LoopIdle: the event loop takes the next remote event while a
\* handler is still inside log_event.
LoopIdleReentrant == pc = "run" /\ emit.left = 0

\* The event loop of ib.run() is between callbacks.
LoopIdle == pc = "run" /\ stack = <<>> /\ emit.left = 0

\* The session receives a remote event and emits it on the event of its
\* category: every listener in the event's slots is to be called.
Deliver ==
    /\ LoopIdle
    /\ ib.connected
    /\ clock + Len(stack) < MaxCalls
    /\ \E ev \in Events :
         /\ emit' = [ev |-> ev, left |-> ib.slots[ev.cat], cur |-> TRUE]
         /\ hist' = Append(hist, ev)
    /\ UNCHANGED <<pc, sleepFor, ib, stack, clock, db, file, notes, polls,
                   procs, opens, edited, docWrites, resetW, resetRow, orphaned>>

\* A session of an earlier cycle that is still connected receives a remote
\* event: the event loop that ib.run() runs is the thread's loop, which serves
\* every connected session of the thread, and the listeners that
\* setup_ibkr_event_listeners added to that session are still on its events.
DeliverEarlier ==
    /\ LoopIdle
    /\ orphaned
    /\ clock + Len(stack) < MaxCalls
    /\ \E ev \in Events :
         /\ emit' = [ev |-> ev, cur |-> FALSE,
                     left |-> setup_ibkr_event_listeners(IB).slots[ev.cat]]
         /\ hist' = Append(hist, ev)
    /\ UNCHANGED <<pc, sleepFor, ib, stack, clock, db, file, notes, polls,
                   procs, opens, edited, docWrites, resetW, resetRow, orphaned>>

\* handle_order_status / handle_execution / handle_open_order, called by the
\* emit one after the other: one call of log_event with the event's tag,
\* templated description and __dict__.
Dispatch ==
    /\ pc = "run"
    /\ emit.left > 0
    /\ stack = <<>>
    /\ clock < MaxCalls
    /\ emit' = [emit EXCEPT !.left = emit.left - 1]
    /\ log_event(emit.ev, "handler", stack)
    /\ UNCHANGED <<pc, sleepFor, ib, db, file, notes, hist, polls, procs,
                   opens, edited, docWrites, resetW, resetRow, orphaned>>

\* ib.run() raises (the connection is lost): the except clause logs it.
RunFail ==
    /\ LoopIdle
    /\ clock < MaxCalls
    /\ \E reason \in RunErrors :
         /\ hist' = Append(hist, Failure(reason))
         /\ log_event(Failure(reason), "error", stack)
    /\ pc' = "except"
    /\ ib' = [ib EXCEPT !.connected = FALSE]
    /\ UNCHANGED <<sleepFor, emit, db, file, notes, polls, procs, opens,
                   edited, docWrites, resetW, resetRow, orphaned>>

\* ib.run() returns after the remote end has closed the connection: the try
\* ends without sleep and the while loop starts over.
RunReturn ==
    /\ LoopIdle
    /\ pc' = "poll"
    /\ ib' = [ib EXCEPT !.connected = FALSE]
    /\ UNCHANGED <<sleepFor, emit, stack, clock, db, file, notes, hist, polls,
                   procs, opens, edited, docWrites, resetW, resetRow, orphaned>>

\* ib.run() returns because the event loop was stopped, with the connection
\* up: nothing after ib.run() closes it.
RunStopped ==
    /\ LoopIdle
    /\ ib.connected
    /\ pc' = "poll"
    /\ UNCHANGED <<sleepFor, ib, emit, stack, clock, db, file, notes, hist,
                   polls, procs, opens, edited, docWrites, resetW, resetRow,
                   orphaned>>

(***************************************************************************)
(* The environment of the files                                            *)
(***************************************************************************)
\* JSON_LOG_FILE is edited from outside the program and no longer parses.
ExternalCorrupt ==
    /\ file.kind = "list"
    /\ edited' = TRUE
    /\ file' = Corrupt
    /\ UNCHANGED <<pc, sleepFor, ib, emit, stack, clock, db, notes, hist,
                   polls, procs, opens, docWrites, resetW, resetRow, orphaned>>

\* JSON_LOG_FILE is damaged from outside the program and holds bytes that do
\* not decode.
ExternalGarble ==
    /\ file.kind = "list"
    /\ edited' = TRUE
    /\ file' = Garbled
    /\ UNCHANGED <<pc, sleepFor, ib, emit, stack, clock, db, notes, hist,
                   polls, procs, opens, docWrites, resetW, resetRow, orphaned>>

\* json.load raises an exception that except json.JSONDecodeError does not
\* catch: it leaves log_event before logs.append and the rewrite.
LogJsonReadFail ==
    /\ AtStep("json_read")
    /\ file.kind = "garbled"
    /\ stack' = SetTop([Top EXCEPT !.exc = "UnicodeDecodeError"])
    /\ UNCHANGED <<pc, sleepFor, ib, emit, clock, db, file, notes, hist, polls,
                   procs, opens, edited, docWrites, resetW, resetRow, orphaned>>

\* Mutant of LogSqlFail: the failure of the INSERT is swallowed and log_event
\* goes on to the JSON file.
LogSqlFailSwallowed ==
    /\ AtStep("sql")
    /\ stack' = SetTop([Top EXCEPT !.step = StepAfter("sql")])
    /\ UNCHANGED <<pc, sleepFor, ib, emit, clock, db, file, notes, hist, polls,
                   procs, opens, edited, docWrites, resetW, resetRow, orphaned>>

\* The INSERT (or json.dumps(raw_data)) raises: the with block rolls back and
\* no row is committed.
LogSqlFail ==
    /\ AtStep("sql")
    /\ stack' = SetTop([Top EXCEPT !.exc = "OperationalError"])
    /\ UNCHANGED <<pc, sleepFor, ib, emit, clock, db, file, notes, hist, polls,
                   procs, opens, edited, docWrites, resetW, resetRow, orphaned>>

\* open(JSON_LOG_FILE, 'w') or json.dump raises OSError: the file is left as
\* it was (open failed) or truncated (the write failed).
LogJsonWriteFail ==
    /\ AtStep("json_write")
    /\ file' \in {file, Corrupt}
    /\ stack' = SetTop([Top EXCEPT !.exc = "OSError"])
    /\ UNCHANGED <<pc, sleepFor, ib, emit, clock, db, notes, hist, polls,
                   procs, opens, edited, docWrites, resetW, resetRow, orphaned>>

\* An exception leaves log_event inside the except clause: nothing above it
\* in monitor_ibkr catches it and the worker thread ends.
ThreadDies ==
    /\ Raising
    /\ Top.ctx = "error"
    /\ stack' = Pop
    /\ pc' = "dead"
    /\ UNCHANGED <<sleepFor, ib, emit, clock, db, file, notes, hist, polls,
                   procs, opens, edited, docWrites, resetW, resetRow, orphaned>>

(***************************************************************************)
(* Specifications                                                          *)
(***************************************************************************)
\* monitor_ibkr has run init_db() on a new deployment: the table exists and
\* is empty, the JSON file does not exist, the loop is about to poll.
Init ==
    /\ pc = "poll"
    /\ sleepFor = 0
    /\ ib = IB
    /\ emit = NoEmit
    /\ stack = <<>>
    /\ clock = 0
    /\ db = <<>>
    /\ file = Missing
    /\ notes = <<>>
    /\ hist = <<>>
    /\ polls = <<>>
    /\ procs = <<>>
    /\ opens = 0
    /\ edited = FALSE
    /\ docWrites = 0
    /\ resetW = 0
    /\ resetRow = 0
    /\ orphaned = FALSE

Next ==
    \/ Poll
    \/ Sleep
    \/ ConnectOk
    \/ ConnectFail
    \/ Deliver
    \/ DeliverEarlier
    \/ Dispatch
    \/ RunFail
    \/ RunReturn
    \/ RunStopped
    \/ LogSql
    \/ LogJsonRead
    \/ LogJsonWrite
    \/ SendMessage(TRUE)
    \/ SendMessage(FALSE)
    \/ LogNotifyLoopRunning
    \/ Return
    \/ HandlerRaiseSwallowed
    \/ HandlerRaisePropagated
    \/ ExternalCorrupt

Spec == Init /\ [][Next]_vars

\* Spec with store writes that may fail and a file that may not decode.
NextFaults ==
    \/ Next
    \/ LogSqlFail
    \/ LogJsonWriteFail
    \/ ExternalGarble
    \/ LogJsonReadFail
    \/ ThreadDies

SpecFaults == Init /\ [][NextFaults]_vars

\* The log sink with failing steps, called by the handlers and by the except
\* clause: SpecFaults with sessions that end by failure only (ib.run() does
\* not return and no earlier session delivers).
NextSink ==
    \/ Poll
    \/ Sleep
    \/ ConnectOk
    \/ ConnectFail
    \/ Deliver
    \/ Dispatch
    \/ RunFail
    \/ LogSql
    \/ LogJsonRead
    \/ LogJsonWrite
    \/ SendMessage(TRUE)
    \/ SendMessage(FALSE)
    \/ LogNotifyLoopRunning
    \/ Return
    \/ HandlerRaiseSwallowed
    \/ HandlerRaisePropagated
    \/ ExternalCorrupt
    \/ ExternalGarble
    \/ LogSqlFail
    \/ LogJsonReadFail
    \/ LogJsonWriteFail
    \/ ThreadDies

SpecSink == Init /\ [][NextSink]_vars

\* The readiness poller alone, with the process list of every poll kept: the
\* supervisor's cycle without remote events and without failures.
NextPoller ==
    \/ PollObserved
    \/ Sleep
    \/ ConnectOk
    \/ RunReturn

SpecPoller == Init /\ [][NextPoller]_vars

\* The supervisor's cycle with failing session opens and ending event loops,
\* without remote events, under fair scheduling of the worker thread: a
\* statement of the worker that can run does run.  When ib.run() ends is up
\* to the remote end: no fairness is assumed for it.
NextLive ==
    \/ Poll
    \/ Sleep
    \/ ConnectOk
    \/ ConnectFail
    \/ RunFail
    \/ RunReturn
    \/ RunStopped
    \/ LogSql
    \/ LogJsonRead
    \/ LogJsonWrite
    \/ SendMessage(TRUE)
    \/ SendMessage(FALSE)
    \/ Return
    \/ ExternalCorrupt

Fairness ==
    /\ WF_vars(Poll)
    /\ WF_vars(Sleep)
    /\ WF_vars(ConnectOk \/ ConnectFail)
    /\ WF_vars(LogSql)
    /\ WF_vars(LogJsonRead)
    /\ WF_vars(LogJsonWrite)
    /\ WF_vars(SendMessage(TRUE) \/ SendMessage(FALSE))
    /\ WF_vars(Return)

SpecLive == Init /\ [][NextLive]_vars /\ Fairness

(***************************************************************************)
(* Properties                                                              *)
(***************************************************************************)
\* No log_event call is in progress and no handler is waiting to be called.
Quiet == stack = <<>> /\ emit.left = 0

\* Row r and document entry e are the same record.
SameRecord(r, e) ==
    /\ r.timestamp = e.timestamp
    /\ r.event_type = e.event_type
    /\ r.description = e.description

ErrorRows == { i \in DOMAIN db : db[i].event_type = "Error" }
RemoteEvents == { i \in DOMAIN hist : hist[i].cat # "Error" }

\* C1: once every delivered event has been handled, the relational store
\* holds one row per input (remote event or caught failure), in the order the
\* inputs occurred, each row carrying its input's tag, description and
\* payload: N + E rows for N remote events and E Error records.
C1_OneRowPerInput ==
    Quiet =>
        /\ Len(db) = Len(hist)
        /\ Len(db) = Cardinality(RemoteEvents) + Cardinality(ErrorRows)
        /\ \A i \in DOMAIN db :
             /\ i <= Len(hist)
             /\ db[i].event_type = hist[i].cat
             /\ db[i].description = Describe(hist[i])
             /\ db[i].raw_data = Dumps(IF hist[i].cat = "Error" THEN EmptyPayload
                                       ELSE <<hist[i].cat, hist[i].f>>)
        /\ \A i, j \in DOMAIN db : i < j => db[i].timestamp < db[j].timestamp

\* A failed session open followed, in the next session, by a fill: two rows,
\* Error then Execution.
C1_Witness ==
    /\ Quiet
    /\ Len(db) = 2
    /\ db[1].event_type = "Error"
    /\ db[2].event_type = "Execution"
    /\ hist[2] \in Events

\* C2 as stated: whenever no call is in progress and the document file
\* parses, its length is the number of log_event calls made so far.
C2_LengthIsTotalCalls ==
    (stack = <<>> /\ file.kind = "list") => Len(file.logs) = clock

\* C2 amended: whenever the document file parses, its length is the number
\* of log_event calls that have rewritten it since, and including, the latest
\* call that found it missing or unparseable.
C2_LengthSinceRecovery ==
    file.kind = "list" => Len(file.logs) = docWrites - resetW

\* The second call found the file unparseable and started it over.
C2_Witness ==
    /\ stack = <<>>
    /\ file.kind = "list"
    /\ docWrites = 2
    /\ resetW = 1
    /\ Len(file.logs) = 1

\* The program takes a step inside the notification part of log_event.
NotifyStep ==
    /\ stack # <<>>
    /\ Top.step \in {"notify", "done"}
    /\ stack' # stack

\* C3: when bot.send_message is called, the row and the document entry of the
\* call are already written (the row is the newest row; the file holds the
\* list ending with the entry, unless edited from outside since), and no step
\* of the notification part, failing or not, changes either store.
C3_WriteThenNotify ==
    [][ /\ notes' # notes =>
            /\ AtStep("notify")
            /\ db # <<>>
            /\ db[Len(db)] = Row(Top.entry)
            /\ Top.logs # <<>>
            /\ Top.logs[Len(Top.logs)] = Top.entry
            /\ file \in {Parsed(Top.logs), Corrupt}
        /\ NotifyStep => (db' = db /\ file' = file)
      ]_vars

\* A delivery has failed and both stores hold the record of the call.
C3_Witness ==
    /\ AtStep("done")
    /\ Top.sent = "failed"
    /\ db[Len(db)] = Row(Top.entry)
    /\ file.kind = "list"
    /\ Len(file.logs) = 2
    /\ file.logs[2] = Top.entry

\* C4 as stated: no exception raised by the notification step leaves
\* log_event.
C4_NotifyFailureContained ==
    \A i \in DOMAIN stack :
        ~(stack[i].exc # "none" /\ stack[i].step = "notify")

\* polls is false, true, false, true, ...
Toggling == \A i \in DOMAIN polls : polls[i] = (i % 2 = 0)

\* The polls that found the terminal after a poll that did not.
TrueTransitions ==
    { i \in DOMAIN polls : polls[i] /\ (i = 1 \/ ~polls[i - 1]) }

FailedOpens ==
    { i \in DOMAIN hist :
        hist[i].cat = "Error" /\ hist[i].f[1] \in ConnectErrors }

FailedOpenRows ==
    { i \in DOMAIN db :
        /\ db[i].event_type = "Error"
        /\ \E reason \in ConnectErrors :
             db[i].description = <<"Failed to connect or monitor:", reason>> }

\* C5: while readiness toggles false, true, false, true, ib.connect has been
\* called once per transition to true (the call about to be made counted),
\* and once no call is in progress there is one Error row per failed connect.
C5_OneOpenPerTransition ==
    Toggling =>
        /\ opens + (IF pc = "connect" THEN 1 ELSE 0) = Cardinality(TrueTransitions)
        /\ stack = <<>> => Cardinality(FailedOpenRows) = Cardinality(FailedOpens)

\* false, true, false, true with both opens failing: two opens, two Error rows.
C5_Witness ==
    /\ polls = <<FALSE, TRUE, FALSE, TRUE>>
    /\ opens = 2
    /\ stack = <<>>
    /\ Cardinality(FailedOpens) = 2
    /\ Cardinality(FailedOpenRows) = 2

\* C6: an exception from ib.connect or ib.run brings the worker into the
\* except clause with one log_event call for an Error record that carries the
\* reason and an empty payload; the clause ends with that record as the newest
\* row, written once, in time.sleep(10), and the sleep ends at the poll.
C6_ErrorLoggedThenRetry ==
    [][ /\ pc' # "dead"
        /\ (pc # "except" /\ pc' = "except") =>
             /\ hist' # hist
             /\ Len(stack') = 1
             /\ stack'[1].ctx = "error"
             /\ stack'[1].step = "sql"
             /\ stack'[1].entry.event_type = "Error"
             /\ stack'[1].entry.description =
                    <<"Failed to connect or monitor:", hist'[Len(hist')].f[1]>>
             /\ stack'[1].entry.raw_data = EmptyPayload
             /\ \A i \in DOMAIN db' : db'[i].timestamp # stack'[1].entry.timestamp
        /\ (pc = "except" /\ stack' # stack) =>
             /\ Len(stack) = 1
             /\ Len(db') <= Len(db) + 1
             /\ Len(db') = Len(db) + 1 => Top.step = "sql"
        /\ (pc = "except" /\ pc' # "except") =>
             /\ pc' = "sleep"
             /\ sleepFor' = LONG_SLEEP
             /\ stack' = <<>>
             /\ db' # <<>>
             /\ db'[Len(db')] = Row(Top.entry)
             /\ Cardinality({ i \in DOMAIN db' :
                    db'[i].timestamp = Top.entry.timestamp }) = 1
        /\ (pc = "sleep" /\ pc' # "sleep") => pc' = "poll"
      ]_vars

\* The event loop raised, the Error record is written and the worker sleeps.
C6_Witness ==
    /\ pc = "sleep"
    /\ sleepFor = LONG_SLEEP
    /\ hist # <<>>
    /\ hist[Len(hist)].f[1] \in RunErrors
    /\ db[Len(db)].event_type = "Error"
    /\ db[Len(db)].raw_data = Dumps(EmptyPayload)

\* Some process of ps has a name that contains TWS_PROCESS_NAME, compared in
\* lower case.
HasMatch(ps) ==
    \E i \in DOMAIN ps :
        /\ ps[i].has
        /\ Contains(Lower(TWS_PROCESS_NAME), Lower(ps[i].name))

\* C7: the poll never ends the worker; its answer is true exactly when some
\* process has a matching name, a process whose name cannot be read counting
\* as no match; after the answer false the worker sleeps the short interval
\* and polls again.
C7_PollNeverRaises ==
    /\ pc # "dead"
    /\ polls # <<>> => polls[Len(polls)] = HasMatch(procs)
    /\ (polls # <<>> /\ ~polls[Len(polls)]) =>
         /\ pc \in {"sleep", "poll"}
         /\ pc = "sleep" => sleepFor = SHORT_SLEEP

\* A process list with an unreadable name and no match: not ready, sleeping.
C7_Witness ==
    /\ pc = "sleep"
    /\ Len(procs) = 2
    /\ procs[1] = ProcNone
    /\ procs[2].has
    /\ ~HasMatch(procs)

\* C8 as stated: the worker thread never terminates.
C8_WorkerNeverTerminates == pc \in {"poll", "sleep", "connect", "run", "except"}

C10_OneCallAtATime ==
    /\ Len(stack) <= 1
    /\ stack # <<>> =>
         /\ emit.left = 0
         /\ hist # <<>>
         /\ Top.entry.event_type = hist[Len(hist)].cat
         /\ Top.entry.description = Describe(hist[Len(hist)])
         /\ Top.entry.timestamp = clock
    /\ AtStep("json_write") =>
         \/ file.kind # "list"
         \/ Top.logs = Append(file.logs, Top.entry)

\* The second event's handler is between reading and rewriting the file that
\* the first event's call wrote.
C10_Witness ==
    /\ AtStep("json_write")
    /\ Top.ctx = "handler"
    /\ file.kind = "list"
    /\ Len(file.logs) = 1
    /\ Len(Top.logs) = 2
    /\ hist[1] \in Events

\* The fill of the scenario: side BUY, shares 100, price 50.25.
ScenarioFill == [cat |-> "Execution", f |-> <<"BUY", "100", "50.25">>]

\* The polls of the scenario: not ready three times, ready, ready again.
ScenarioPolls == <<FALSE, FALSE, FALSE, TRUE, TRUE>>

\* The inputs of the scenario: one failed session open, then the fill.
ScenarioInputs == <<Failure("ConnectionRefusedError"), ScenarioFill>>

\* s is the first Len(s) elements of t.
IsPrefix(s, t) == Len(s) <= Len(t) /\ s = SubSeq(t, 1, Len(s))

\* C11: in the run of the scenario (three polls not ready, a poll ready, the
\* session open fails, a poll ready, the session opens, the fill BUY 100 at
\* 50.25 is delivered), from the commit of the Error record to the fill the
\* relational store holds exactly one row, of event_type Error, and from the
\* commit of the fill's record on it holds exactly two rows, the second of
\* event_type Execution with description "Trade executed: BUY 100 @ 50.25".
C11_ScenarioRows ==
    (IsPrefix(polls, ScenarioPolls) /\ IsPrefix(hist, ScenarioInputs)) =>
        /\ (Len(hist) = 1 /\ ~AtStep("sql")) =>
             /\ Len(db) = 1
             /\ db[1].event_type = "Error"
             /\ Len(polls) >= 4
        /\ (Len(hist) = 2 /\ emit.left = 0 /\ ~AtStep("sql")) =>
             /\ Len(polls) >= 4
             /\ Len(db) = 2
             /\ db[1].event_type = "Error"
             /\ db[2].event_type = "Execution"
             /\ db[2].description = <<"Trade executed:", "BUY", "100", "@", "50.25">>

\* The scenario has run to its end: the fill's handler has returned.
C11_Witness ==
    /\ polls = ScenarioPolls
    /\ hist = ScenarioInputs
    /\ opens = 2
    /\ pc = "run"
    /\ Quiet
    /\ Len(db) = 2
    /\ db[2].description = <<"Trade executed:", "BUY", "100", "@", "50.25">>

\* C12 as stated: when ib = IB() makes a new session, no session of an earlier
\* cycle is still connected, so that at most one session is connected at any
\* time.
C12_EarlierSessionClosed == ~orphaned

Recovering ==
    /\ stack # <<>>
    /\ \/ Top.step = "json_read" /\ file.kind # "list"
       \/ Top.step = "json_write" /\ resetW = docWrites
       \/ Top.step \in {"notify", "done"} /\ resetW + 1 = docWrites

\* C14 as stated: the read of a document file that is missing or unparseable
\* raises nothing, the call goes on with no prior entries, and once it has
\* rewritten the file, the file, as long as it parses, holds exactly the
\* record of the call.
C14_MissingOrUnparseableRecovered ==
    Recovering =>
        /\ Top.step = "json_read" => Top.exc = "none"
        /\ (Top.step \in {"notify", "done"} /\ file.kind = "list") =>
             file.logs = <<Top.entry>>

\* The log_event calls that have reached the notification step and are past
\* it: every completed rewrite of the file is followed by that step.
CallsPastNotify ==
    docWrites - (IF stack # <<>> /\ Top.step = "notify" /\ Top.exc = "none"
                 THEN 1 ELSE 0)

\* C15 as stated: the calls of bot.send_message are as many as the log_event
\* calls that went through the notification step, each with the text
\* "[event_type] description" of a committed row, and no Error record is made
\* from a failure of the notification step.
C15_OneAttemptPerCall ==
    /\ Len(notes) = CallsPastNotify
    /\ \A i \in DOMAIN notes :
         \E j \in DOMAIN db :
             notes[i] = <<"[", db[j].event_type, "]", db[j].description>>
    /\ \A j \in DOMAIN db :
         db[j].description # <<"Failed to connect or monitor:", LoopRunningError>>

\* C16 as stated: the session that ib names has one listener per event
\* category once it is set up, every remote event that is dispatched was
\* emitted on that session, and it is handed to one handler.
C16_OnlyCurrentSessionHandlers ==
    /\ ib.connected => \A c \in Cats : ib.slots[c] = 1
    /\ emit.left <= 1
    /\ emit.cur

\* The terminal was found by the latest poll.
Detected == polls # <<>> /\ polls[Len(polls)]

\* The poll budget of the model is used up: the worker is at the poll that
\* the model does not take.
PollsExhausted == pc = "poll" /\ Len(polls) = MaxPolls

\* C17: under fair scheduling of the worker, the except clause always comes
\* back to the poll (the Error record is logged and the long sleep ends), a
\* session open always ends in MONITORING or back at the poll, and if from
\* some point on every poll finds the terminal, the worker reaches
\* MONITORING (session opens fail at most MaxCalls times; the model stops at
\* MaxPolls polls).
C17_EventuallyMonitoring ==
    /\ (pc = "except") ~> (pc = "poll")
    /\ (pc = "connect") ~> (pc = "run" \/ pc = "poll")
    /\ (pc = "sleep") ~> (pc = "poll")
    /\ (<>[]Detected) => <>(pc = "run" \/ PollsExhausted)

\* After two failed session opens the third one succeeded: MONITORING.
C17_Witness ==
    /\ pc = "run"
    /\ polls = <<TRUE, TRUE, TRUE>>
    /\ opens = 3
    /\ Len(db) = 2
    /\ ib.connected

\* The innermost call goes on from one statement to the next.
SameCall ==
    /\ stack # <<>>
    /\ Len(stack') = Len(stack)
    /\ stack' # stack
    /\ stack'[Len(stack')].entry = Top.entry

\* Every entry of the document file has a row with its timestamp, event_type
\* and description.
EntriesHaveRows ==
    file.kind = "list" =>
        \A j \in DOMAIN file.logs :
            \E i \in DOMAIN db : SameRecord(db[i], file.logs[j])

\* C18: a log_event call commits its row, then reads the document file, then
\* rewrites it, then notifies, in this order; the row is added by the first
\* step only, the file rewritten by the third only, bot.send_message called
\* by the fourth only, and then for a record that has its row and was written
\* to the file; once a step has raised, the call writes and sends nothing
\* more; and as long as the file has not been edited from outside, every
\* entry of the file has a matching row.
C18_StepsInOrder ==
    [][ /\ (SameCall /\ Top.exc = "none" /\ stack'[Len(stack')].exc = "none") =>
             <<Top.step, stack'[Len(stack')].step>> \in
                 { <<"sql", "json_read">>, <<"json_read", "json_write">>,
                   <<"json_write", "notify">>, <<"notify", "done">> }
        /\ db' # db =>
             /\ SameCall
             /\ Top.step = "sql"
             /\ db' = Append(db, Row(Top.entry))
        /\ (file' # file /\ file'.kind = "list") =>
             /\ SameCall
             /\ Top.step = "json_write"
             /\ db # <<>> /\ db[Len(db)] = Row(Top.entry)
        /\ notes' # notes =>
             /\ SameCall
             /\ Top.step = "notify"
             /\ notes' = Append(notes, <<"[", db[Len(db)].event_type, "]",
                                         db[Len(db)].description>>)
             /\ db[Len(db)] = Row(Top.entry)
             /\ docWrites > 0
             /\ Top.logs[Len(Top.logs)] = Top.entry
        /\ Raising =>
             /\ db' = db
             /\ notes' = notes
             /\ docWrites' = docWrites
             /\ file' \in {file, Corrupt, Garbled}
        /\ ~edited' => EntriesHaveRows'
      ]_vars

\* The INSERT of the second call has raised in the except clause: the thread
\* has ended, and the stores and the channel hold the first record only.
C18_Witness ==
    /\ pc = "dead"
    /\ Len(hist) = 2
    /\ Len(db) = 1
    /\ file.kind = "list"
    /\ Len(file.logs) = 1
    /\ Len(notes) = 1
    /\ ~edited

====
